---- MODULE Spec2Model ----
(***************************************************************************)
(* The API token store of unleash (ApiTokenStore) and its row aggregator   *)
(* (tokenRowReducer / toTokens), modelled from                             *)
(* src/frontend/src/hooks/api/getters/useFeatureSearch/useFeatureSearch.ts *)
(* lines 61-292.                                                           *)
(*                                                                         *)
(* Two specifications share the module:                                    *)
(*   AggSpec  the pure row aggregator applied to bounded row sequences;    *)
(*   Spec     the store: three tables, a clock and the last call made.     *)
(*                                                                         *)
(* The scalar columns username, type and created_at are set once by insert *)
(* and carried through every operation unchanged; they are left out, and   *)
(* so is the environment column of the token table, which toRow writes and *)
(* no query of the store selects.                                          *)
(***************************************************************************)
EXTENDS Integers, Sequences, FiniteSets, TLC

VARIABLES
    api_tokens,             \* table TABLE: the set of rows [secret, expires_at, seen_at]
    api_token_project,      \* table API_LINK_TABLE_PROJECT: per secret, the projects
                            \* of its link rows in insertion order
    api_token_environment,  \* table API_LINK_TABLE_ENVIRONMENT: likewise
    now,                    \* the storage clock, now()
    last,                   \* the last call: its arguments, outcome and return value
    rows,                   \* AggSpec: the flat rows handed to toTokens
    aggregated              \* AggSpec: toTokens(rows)

vars == <<api_tokens, api_token_project, api_token_environment, now, last,
          rows, aggregated>>

storeVars == <<api_tokens, api_token_project, api_token_environment, now, last>>
aggVars == <<rows, aggregated>>

----------------------------------------------------------------------------
(* Bounds and value domains *)

MaxTime == 1     \* the clock runs 0..MaxTime
MaxRows == 3     \* longest row sequence handed to the aggregator in AggSpec

SecretOrder == <<"s1", "s2">>      \* the order storage lists token rows in
Secrets == {SecretOrder[i] : i \in 1..Len(SecretOrder)}
Projects == {"p1", "p2"}          \* concrete project identifiers
Environments == {"e1", "e2"}      \* concrete environment identifiers

NULL == "NULL"   \* SQL NULL / JS undefined in a string-valued column
NoTime == 0 - 1  \* SQL NULL / JS undefined in a timestamp column
Times == 0..MaxTime

----------------------------------------------------------------------------
(* Constants of the source *)

ALL == "*"
ALL_PROJECTS == "*"
STORE == "api-tokens"

\* isAll(values): the list is exactly the wildcard
isAll(values) == Len(values) = 1 /\ values[1] = ALL

\* JS truthiness of a string-valued column: null, undefined and '' are falsy
Truthy(v) == v # NULL /\ v # ""

\* Array.prototype.join(',')
RECURSIVE Join(_)
Join(s) ==
    IF Len(s) = 0 THEN ""
    ELSE IF Len(s) = 1 THEN s[1]
    ELSE s[1] \o "," \o Join(Tail(s))

\* Array.prototype.filter
RECURSIVE Filter(_, _)
Filter(s, drop) ==
    IF Len(s) = 0 THEN <<>>
    ELSE IF s[1] = drop THEN Filter(Tail(s), drop)
    ELSE <<s[1]>> \o Filter(Tail(s), drop)

Range(s) == {s[i] : i \in 1..Len(s)}

----------------------------------------------------------------------------
(* Row aggregator *)

\* position of the entry keyed by secret in the accumulator, 0 if absent
IndexOf(acc, secret) ==
    IF \E i \in 1..Len(acc) : acc[i].secret = secret
    THEN CHOOSE i \in 1..Len(acc) : acc[i].secret = secret
    ELSE 0

\* the entry seeded for a secret seen for the first time
SeedToken(tokenRow) ==
    [secret       |-> tokenRow.secret,
     project      |-> ALL,
     projects     |-> <<ALL>>,
     environment  |-> ALL,
     environments |-> <<ALL>>,
     expiresAt    |-> tokenRow.expires_at]

\* PushScope with the list replaced by the row's value instead of extended
PushScopeReplace(current, value) ==
    IF Truthy(value) THEN <<value>> ELSE current

\* a scope list after one row: the wildcard default is cleared by the first
\* concrete value, then every value is appended
PushScope(current, value) ==
    IF Truthy(value)
    THEN Append(IF isAll(current) THEN <<>> ELSE current, value)
    ELSE current

\* tokenRowReducer with the environment branch chained as else-if to the
\* project branch
tokenRowReducerElseIf(acc, tokenRow) ==
    LET found == IndexOf(acc, tokenRow.secret)
        acc1 == IF found = 0 THEN Append(acc, SeedToken(tokenRow)) ELSE acc
        i == IF found = 0 THEN Len(acc1) ELSE found
        currentToken == acc1[i]
        projects == PushScope(currentToken.projects, tokenRow.project)
        environments == PushScope(currentToken.environments, tokenRow.environment)
    IN  [acc1 EXCEPT ![i] =
            IF Truthy(tokenRow.project)
            THEN [currentToken EXCEPT
                    !.projects = projects, !.project = Join(projects)]
            ELSE IF Truthy(tokenRow.environment)
            THEN [currentToken EXCEPT
                    !.environments = environments, !.environment = Join(environments)]
            ELSE currentToken]

\* the accumulator is an object keyed by secret; its entries are kept here in
\* insertion order, which is the order Object.values lists them in
tokenRowReducer(acc, tokenRow) ==
    LET found == IndexOf(acc, tokenRow.secret)
        acc1 == IF found = 0 THEN Append(acc, SeedToken(tokenRow)) ELSE acc
        i == IF found = 0 THEN Len(acc1) ELSE found
        currentToken == acc1[i]
        projects == PushScope(currentToken.projects, tokenRow.project)
        environments == PushScope(currentToken.environments, tokenRow.environment)
    IN  [acc1 EXCEPT ![i] =
            [currentToken EXCEPT
                !.projects = projects,
                !.project = IF Truthy(tokenRow.project)
                            THEN Join(projects) ELSE currentToken.project,
                !.environments = environments,
                !.environment = IF Truthy(tokenRow.environment)
                                THEN Join(environments)
                                ELSE currentToken.environment]]

RECURSIVE Reduce(_, _)
Reduce(rs, acc) ==
    IF Len(rs) = 0 THEN acc
    ELSE Reduce(Tail(rs), tokenRowReducer(acc, rs[1]))

toTokens(rs) == Reduce(rs, <<>>)

----------------------------------------------------------------------------
(* The storage layer.  The token table is keyed by secret; the link rows of *)
(* a secret keep their insertion order.  A query without ORDER BY lists the *)
(* token rows in an order of storage's own (SecretOrder) and a join in      *)
(* nested-loop order.  An unqualified column name of a query is resolved    *)
(* against the token table.                                                 *)

\* the columns of TABLE
TokenColumns ==
    {"secret", "username", "type", "environment", "expires_at", "created_at", "seen_at"}

Database ==
    [tokens       |-> api_tokens,
     projects     |-> api_token_project,
     environments |-> api_token_environment]

\* the values linked to a secret in a link table, in table order
LinksOf(table, secret) == table[secret]

\* the rows of a set of token rows in the order storage lists them
RECURSIVE Scan(_, _)
Scan(tokenRows, order) ==
    IF Len(order) = 0 THEN <<>>
    ELSE (IF \E t \in tokenRows : t.secret = order[1]
          THEN <<CHOOSE t \in tokenRows : t.secret = order[1]>>
          ELSE <<>>) \o Scan(tokenRows, Tail(order))

\* LEFT JOIN: a token without links keeps one row, with NULL in the column
LeftSide(links) == IF Len(links) = 0 THEN <<NULL>> ELSE links

\* the flat rows of one token row: token x project links x environment links
JoinedRows(db, t) ==
    LET ps == LeftSide(LinksOf(db.projects, t.secret))
        es == LeftSide(LinksOf(db.environments, t.secret))
    IN  [k \in 1..(Len(ps) * Len(es)) |->
            [secret      |-> t.secret,
             expires_at  |-> t.expires_at,
             project     |-> ps[((k - 1) \div Len(es)) + 1],
             environment |-> es[((k - 1) % Len(es)) + 1]]]

RECURSIVE JoinSeq(_, _)
JoinSeq(db, tokenRows) ==
    IF Len(tokenRows) = 0 THEN <<>>
    ELSE JoinedRows(db, tokenRows[1]) \o JoinSeq(db, Tail(tokenRows))

JoinAll(db, tokenRows) == JoinSeq(db, Scan(tokenRows, SecretOrder))

\* tokens LEFT JOIN api_token_project LEFT JOIN api_token_environment
makeTokenProjectQuery(db) == JoinAll(db, db.tokens)

\* IsActive with the comparison not strict
IsActiveInclusive(row, clock) == row.expires_at = NoTime \/ row.expires_at >= clock

\* .where('expires_at', 'IS', null).orWhere('expires_at', '>', 'now()')
IsActive(row, clock) == row.expires_at = NoTime \/ row.expires_at > clock

HasSecret(db, secret) == \E t \in db.tokens : t.secret = secret

\* the first element of an array, undefined ( <<>> ) when it is empty
First(s) == IF Len(s) = 0 THEN <<>> ELSE <<s[1]>>

----------------------------------------------------------------------------
(* Metrics: this.timer(action) starts a timer; the function it returns      *)
(* stops it and emits one DB_TIME event tagged with store and action.       *)

TimerStart(action) == [step |-> "timer.start", store |-> STORE, action |-> action]
TimerStop(action) == [step |-> "timer.stop", store |-> STORE, action |-> action]
Storage(action) == [step |-> "storage", store |-> STORE, action |-> action]

\* TimedTrace with the stop function never called
TimedTraceUnstopped(action, fail) == <<TimerStart(action), Storage(action)>>

\* the steps of a call that brackets its storage interaction with the timer;
\* a rejected query leaves the stop function uncalled
TimedTrace(action, fail) ==
    IF fail THEN <<TimerStart(action), Storage(action)>>
    ELSE <<TimerStart(action), Storage(action), TimerStop(action)>>

\* the steps of a call that goes to storage without a timer
PlainTrace(action) == <<Storage(action)>>

Call(op, secret, fail, outcome, ret, trace) ==
    [op |-> op, secret |-> secret, fail |-> fail, outcome |-> outcome,
     ret |-> ret, trace |-> trace, logged |-> FALSE, failedAt |-> "none",
     projects |-> <<>>, environments |-> <<>>, expiresAt |-> NoTime,
     clock |-> 0]

Outcome(fail) == IF fail THEN "error" ELSE "ok"

UnchangedTables == UNCHANGED <<api_tokens, api_token_project, api_token_environment>>

----------------------------------------------------------------------------
(* Read operations.  fail: the storage layer rejects the call's query.      *)

count(fail) ==
    /\ last' = Call("count", NULL, fail, Outcome(fail),
                    IF fail THEN <<>> ELSE <<Cardinality(api_tokens)>>,
                    PlainTrace("count"))
    /\ UnchangedTables
    /\ UNCHANGED <<now, aggVars>>

getAll(fail) ==
    /\ last' = Call("getAll", NULL, fail, Outcome(fail),
                    IF fail THEN <<>> ELSE toTokens(makeTokenProjectQuery(Database)),
                    TimedTrace("getAll", fail))
    /\ UnchangedTables
    /\ UNCHANGED <<now, aggVars>>

getAllActive(fail) ==
    /\ last' = [Call("getAllActive", NULL, fail, Outcome(fail),
                     IF fail THEN <<>>
                     ELSE toTokens(SelectSeq(makeTokenProjectQuery(Database),
                                             LAMBDA r : IsActive(r, now))),
                     TimedTrace("getAllActive", fail))
                EXCEPT !.clock = now]
    /\ UnchangedTables
    /\ UNCHANGED <<now, aggVars>>

\* the value get(key) resolves to in a state: <<token>>, or <<>> for undefined
Get(db, key) ==
    First(toTokens(SelectSeq(makeTokenProjectQuery(db), LAMBDA r : r.secret = key)))

get(key, fail) ==
    /\ last' = Call("get", key, fail, Outcome(fail),
                    IF fail THEN <<>> ELSE Get(Database, key),
                    PlainTrace("get"))
    /\ UnchangedTables
    /\ UNCHANGED <<now, aggVars>>

exists(secret, fail) ==
    /\ last' = Call("exists", secret, fail, Outcome(fail),
                    IF fail THEN <<>> ELSE <<HasSecret(Database, secret)>>,
                    PlainTrace("exists"))
    /\ UnchangedTables
    /\ UNCHANGED <<now, aggVars>>

----------------------------------------------------------------------------
(* insert *)

\* the project lists of the creation requests: empty, the wildcard alone, one
\* value, several values, the wildcard among values; and the environment
\* lists: empty, the wildcard alone, several values
ProjectLists == {<<>>, <<ALL_PROJECTS>>, <<"p1">>, <<"p2", "p1">>, <<ALL_PROJECTS, "p1">>}
EnvironmentLists == {<<>>, <<ALL>>, <<"e1", "e2">>}

\* the row written to TABLE
toRow(newToken) ==
    [secret      |-> newToken.secret,
     environment |-> IF isAll(newToken.environments)
                     THEN NULL ELSE newToken.environments,
     expires_at  |-> newToken.expiresAt]

\* the row as the table keeps it: seen_at starts NULL
StoredRow(row) ==
    [secret     |-> row.secret,
     expires_at |-> row.expires_at,
     seen_at    |-> NoTime]

\* INSERT INTO <link table> VALUES (secret, value), one statement per value
InsertLinks(table, secret, values) == [table EXCEPT ![secret] = @ \o values]

\* the token table is keyed by secret: a second row for a secret is rejected
UniqueViolation(db, secret) == HasSecret(db, secret)

\* all but the last element: the statements of a fan-out that went through
\* when its last one is rejected
Front(s) == SubSeq(s, 1, Len(s) - 1)

\* the body of the transaction callback: what it wrote by the time it
\* returned (ok) or threw.  failAt names the statement group storage rejects.
InsertWork(db, newToken, failAt) ==
    LET projectTasks == Filter(newToken.projects, ALL_PROJECTS)
        environmentTasks == Filter(newToken.environments, ALL)
        withToken ==
            [db EXCEPT !.tokens = @ \cup {StoredRow(toRow(newToken))}]
        withProjects ==
            [withToken EXCEPT
                !.projects = InsertLinks(@, newToken.secret, projectTasks)]
        withEnvironments ==
            [withProjects EXCEPT
                !.environments = InsertLinks(@, newToken.secret, environmentTasks)]
    IN  IF failAt = "token" \/ UniqueViolation(db, newToken.secret)
        THEN [db |-> db, ok |-> FALSE, at |-> "token"]
        ELSE IF failAt = "project" /\ Len(projectTasks) > 0
        THEN [db |-> [withToken EXCEPT
                        !.projects = InsertLinks(@, newToken.secret, Front(projectTasks))],
              ok |-> FALSE, at |-> "project"]
        ELSE IF failAt = "environment" /\ Len(environmentTasks) > 0
        THEN [db |-> [withProjects EXCEPT
                        !.environments =
                            InsertLinks(@, newToken.secret, Front(environmentTasks))],
              ok |-> FALSE, at |-> "environment"]
        ELSE [db |-> withEnvironments, ok |-> TRUE, at |-> "none"]

\* Transaction without the rollback: what the callback wrote stays
TransactionNoRollback(db, work) == work.db

\* db.transaction(callback): commit what the callback wrote when it returns,
\* roll all of it back when it throws
Transaction(db, work) == IF work.ok THEN work.db ELSE db

\* a || '*' on a joined string: the empty string is falsy
OrWildcard(joined) == IF joined = "" THEN "*" ELSE joined

\* the object insert returns: the request and the joined projections
InsertResponse(newToken) ==
    [secret       |-> newToken.secret,
     project      |-> OrWildcard(Join(newToken.projects)),
     projects     |-> newToken.projects,
     environment  |-> OrWildcard(Join(newToken.environments)),
     environments |-> newToken.environments,
     expiresAt    |-> newToken.expiresAt]

insert(newToken, failAt) ==
    LET work == InsertWork(Database, newToken, failAt)
        after == Transaction(Database, work)
    IN  /\ api_tokens' = after.tokens
        /\ api_token_project' = after.projects
        /\ api_token_environment' = after.environments
        /\ last' = IF work.ok
                   THEN [Call("insert", newToken.secret, FALSE, "ok",
                              <<InsertResponse(newToken)>>,
                              PlainTrace("insert"))
                         EXCEPT !.projects = newToken.projects,
                                !.environments = newToken.environments,
                                !.expiresAt = newToken.expiresAt]
                   ELSE [Call("insert", newToken.secret, TRUE, "error", <<>>,
                              PlainTrace("insert"))
                         EXCEPT !.failedAt = work.at]
        /\ UNCHANGED <<now, aggVars>>

----------------------------------------------------------------------------
(* delete, deleteAll *)

\* the link rows of a deleted token row go with it (cascade of the storage
\* layer): the rows kept are those whose secret still has a token row
Cascade(table, tokenRows) ==
    [s \in Secrets |-> IF \E t \in tokenRows : t.secret = s THEN table[s] ELSE <<>>]

delete(secret, fail) ==
    LET kept == IF fail THEN api_tokens
                ELSE {t \in api_tokens : t.secret # secret}
    IN  /\ api_tokens' = kept
        /\ api_token_project' = Cascade(api_token_project, kept)
        /\ api_token_environment' = Cascade(api_token_environment, kept)
        /\ last' = Call("delete", secret, fail, Outcome(fail), <<>>, PlainTrace("delete"))
        /\ UNCHANGED <<now, aggVars>>

deleteAll(fail) ==
    LET kept == IF fail THEN api_tokens ELSE {}
    IN  /\ api_tokens' = kept
        /\ api_token_project' = Cascade(api_token_project, kept)
        /\ api_token_environment' = Cascade(api_token_environment, kept)
        /\ last' = Call("deleteAll", NULL, fail, Outcome(fail), <<>>,
                        PlainTrace("deleteAll"))
        /\ UNCHANGED <<now, aggVars>>

----------------------------------------------------------------------------
(* setExpiry *)

\* update({ expires_at }).where({ secret })
UpdateExpiry(tokenRows, secret, expiresAt) ==
    {IF t.secret = secret THEN [t EXCEPT !.expires_at = expiresAt] ELSE t :
        t \in tokenRows}

\* returning('*'): the updated rows.  The update is built on the join query;
\* withJoin tells whether the rows that come back are those of the join or
\* the bare rows of the token table, which have no association columns.
ReturningRows(db, secret, withJoin) ==
    LET matched == {t \in db.tokens : t.secret = secret}
        bare == Scan(matched, SecretOrder)
    IN  IF withJoin
        THEN JoinAll(db, matched)
        ELSE [i \in 1..Len(bare) |->
                [secret      |-> bare[i].secret,
                 expires_at  |-> bare[i].expires_at,
                 project     |-> NULL,
                 environment |-> NULL]]

\* FoundOrThrow without the throw
FoundOrThrowNever(returned) == "ok"

\* rows.length > 0 ? toTokens(rows)[0] : throw new NotFoundError
FoundOrThrow(returned) == IF Len(returned) > 0 THEN "ok" ELSE "NotFoundError"

setExpiry(secret, expiresAt, fail, withJoin) ==
    LET updated == [Database EXCEPT !.tokens = UpdateExpiry(@, secret, expiresAt)]
        returned == ReturningRows(updated, secret, withJoin)
        outcome == IF fail THEN "error" ELSE FoundOrThrow(returned)
    IN  /\ api_tokens' = IF fail THEN api_tokens ELSE updated.tokens
        /\ last' =
              [Call("setExpiry", secret, fail, outcome,
                    IF fail THEN <<>> ELSE First(toTokens(returned)),
                    PlainTrace("setExpiry"))
               EXCEPT !.expiresAt = expiresAt]
        /\ UNCHANGED <<api_token_project, api_token_environment, now, aggVars>>

----------------------------------------------------------------------------
(* markSeenAt *)

\* the column markSeenAt filters on
SeenAtColumn == "secrets"

\* CatchAndLog without the try / catch: the error reaches the caller
Rethrow(raised) == [outcome |-> IF raised THEN "error" ELSE "ok", logged |-> FALSE]

\* try { await update } catch (err) { this.logger.error(...) }
CatchAndLog(raised) == [outcome |-> "ok", logged |-> raised]

\* whereIn(column, secrets).update({ seen_at: now }): storage rejects a
\* statement naming a column the table does not have; an empty list compiles
\* to a constant false condition that names no column
markSeenAt(secrets, fail) ==
    LET raised == fail \/ (secrets # {} /\ SeenAtColumn \notin TokenColumns)
        updated ==
            {IF t.secret \in secrets THEN [t EXCEPT !.seen_at = now] ELSE t :
                t \in api_tokens}
        handled == CatchAndLog(raised)
    IN  /\ api_tokens' = IF raised THEN api_tokens ELSE updated
        /\ last' = [Call("markSeenAt", NULL, raised, handled.outcome, <<>>,
                         PlainTrace("markSeenAt"))
                    EXCEPT !.logged = handled.logged]
        /\ UNCHANGED <<api_token_project, api_token_environment, now, aggVars>>

----------------------------------------------------------------------------
(* The clock and the store's next-state relation *)

Tick ==
    /\ now < MaxTime
    /\ now' = now + 1
    /\ UNCHANGED <<api_tokens, api_token_project, api_token_environment, last,
                   aggVars>>

Expiries == Times \cup {NoTime}

Requests ==
    [secret       : Secrets,
     projects     : ProjectLists,
     environments : EnvironmentLists,
     expiresAt    : Expiries]

FailPoints == {"none", "token", "project", "environment"}

\* a request for a stored secret is rejected at the token row whatever else
\* it holds: one such request per secret is tried
PlainRequest(secret) ==
    [secret |-> secret, projects |-> <<>>, environments |-> <<>>, expiresAt |-> NoTime]

----------------------------------------------------------------------------
(* AggSpec: the aggregator applied to every row sequence up to MaxRows.     *)
(* A link row never holds the wildcard (insert filters it out), so the      *)
(* association columns range over NULL and the concrete identifiers.        *)

FlatRows ==
    [secret      : Secrets,
     expires_at  : {NoTime},
     project     : Projects \cup {NULL},
     environment : Environments \cup {NULL}]

NoCall ==
    [op |-> "none", secret |-> NULL, fail |-> FALSE, outcome |-> "none",
     ret |-> <<>>, trace |-> <<>>, logged |-> FALSE, failedAt |-> "none",
     projects |-> <<>>, environments |-> <<>>, expiresAt |-> NoTime,
     clock |-> 0]

StoreInit ==
    /\ api_tokens = {}
    /\ api_token_project = [s \in Secrets |-> <<>>]
    /\ api_token_environment = [s \in Secrets |-> <<>>]
    /\ now = 0
    /\ last = NoCall

AggInit ==
    /\ rows = <<>>
    /\ aggregated = <<>>

Init == StoreInit /\ AggInit

\* one more row arrives and the sequence is aggregated
Aggregate(r) ==
    /\ Len(rows) < MaxRows
    /\ rows' = Append(rows, r)
    /\ aggregated' = toTokens(rows')
    /\ UNCHANGED storeVars

AggNext == \E r \in FlatRows : Aggregate(r)

AggSpec == Init /\ [][AggNext]_vars

StoreNext ==
    \/ \E fail \in BOOLEAN : count(fail)
    \/ \E fail \in BOOLEAN : getAll(fail)
    \/ \E fail \in BOOLEAN : getAllActive(fail)
    \/ \E key \in Secrets, fail \in BOOLEAN : get(key, fail)
    \/ \E secret \in Secrets, fail \in BOOLEAN : exists(secret, fail)
    \/ \E newToken \in Requests, failAt \in FailPoints :
          /\ ~HasSecret(Database, newToken.secret)
          /\ insert(newToken, failAt)
    \/ \E secret \in Secrets :
          /\ HasSecret(Database, secret)
          /\ insert(PlainRequest(secret), "none")
    \/ \E secret \in Secrets, fail \in BOOLEAN : delete(secret, fail)
    \/ \E fail \in BOOLEAN : deleteAll(fail)
    \/ \E secret \in Secrets, expiresAt \in Times, fail \in BOOLEAN, withJoin \in BOOLEAN :
          setExpiry(secret, expiresAt, fail, withJoin)
    \/ \E secrets \in SUBSET Secrets, fail \in BOOLEAN : markSeenAt(secrets, fail)
    \/ Tick

Spec == Init /\ [][StoreNext]_vars

----------------------------------------------------------------------------
(* Properties of the row aggregator, checked under AggSpec *)

RowsOf(rs, secret) == SelectSeq(rs, LAMBDA r : r.secret = secret)

RECURSIVE ProjectsSeen(_)
ProjectsSeen(rs) ==
    IF Len(rs) = 0 THEN <<>>
    ELSE (IF Truthy(rs[1].project) THEN <<rs[1].project>> ELSE <<>>)
         \o ProjectsSeen(Tail(rs))

\* the values of a sequence, each once, in order of first appearance
RECURSIVE Distinct(_)
Distinct(s) ==
    IF Len(s) = 0 THEN <<>>
    ELSE LET front == Distinct(Front(s))
         IN  IF s[Len(s)] \in Range(front) THEN front ELSE Append(front, s[Len(s)])

SecretsOf(tokens) == {tokens[i].secret : i \in 1..Len(tokens)}

TokenOf(tokens, secret) ==
    tokens[CHOOSE i \in 1..Len(tokens) : tokens[i].secret = secret]

\* no row twice: what a join of keyed tables yields
PairwiseDistinct(rs) ==
    \A i, j \in 1..Len(rs) : i # j => rs[i] # rs[j]

\* C3: for a secret with at least one row carrying a project, the aggregated
\* projects are exactly the distinct projects seen for it, each once, in order
\* of first appearance, and never the wildcard.  Stated for the sequences
\* that hold no row twice.
C3_DistinctProjects ==
    PairwiseDistinct(rows) =>
        \A i \in 1..Len(aggregated) :
            LET seen == ProjectsSeen(RowsOf(rows, aggregated[i].secret))
            IN  Len(seen) > 0 =>
                    /\ aggregated[i].projects = Distinct(seen)
                    /\ ALL \notin Range(aggregated[i].projects)

Shuffles(rs) ==
    {[i \in 1..Len(rs) |-> rs[f[i]]] : f \in Permutations(1..Len(rs))}

SameContents(a, b) ==
    /\ SecretsOf(a) = SecretsOf(b)
    /\ \A s \in SecretsOf(a) :
          /\ Range(TokenOf(a, s).projects) = Range(TokenOf(b, s).projects)
          /\ Range(TokenOf(a, s).environments) = Range(TokenOf(b, s).environments)

\* C8: every permutation of the rows aggregates to the same set of secrets
\* and, per secret, the same set of projects and the same set of environments.
C8_OrderIndependent ==
    \A shuffled \in Shuffles(rows) : SameContents(aggregated, toTokens(shuffled))

\* a row sequence whose order shows in the output: some permutation of it
\* aggregates to a different sequence of tokens
C8_Witness ==
    /\ Len(rows) = MaxRows
    /\ \E shuffled \in Shuffles(rows) : toTokens(shuffled) # aggregated
    /\ \E i \in 1..Len(aggregated) : Len(aggregated[i].projects) > 1

\* C10: the two scope dimensions are decided independently: there is one
\* token per distinct secret, its environments are the wildcard exactly when
\* no row of the secret carries an environment, whatever projects its rows
\* carry, and its projects are the wildcard exactly when no row of the secret
\* carries a project.
C10_Independent ==
    /\ Len(aggregated) = Cardinality(SecretsOf(rows))
    /\ SecretsOf(aggregated) = SecretsOf(rows)
    /\ \A i \in 1..Len(aggregated) :
          LET t == aggregated[i]
              own == RowsOf(rows, t.secret)
              noProject == \A k \in 1..Len(own) : ~Truthy(own[k].project)
              noEnvironment == \A k \in 1..Len(own) : ~Truthy(own[k].environment)
          IN  /\ (t.environments = <<ALL>>) <=> noEnvironment
              /\ (t.environment = ALL) <=> noEnvironment
              /\ (t.projects = <<ALL>>) <=> noProject
              /\ (t.project = ALL) <=> noProject

\* a secret whose rows carry projects and no environment beside a secret
\* whose rows carry an environment and no project
C10_Witness ==
    /\ \E i \in 1..Len(aggregated) :
          /\ Len(aggregated[i].projects) > 1
          /\ aggregated[i].environments = <<ALL>>
    /\ \E i \in 1..Len(aggregated) :
          /\ aggregated[i].projects = <<ALL>>
          /\ aggregated[i].environments # <<ALL>>

----------------------------------------------------------------------------
(* Properties of the store, checked under Spec *)

\* C1: insert is atomic.  When a project-link or environment-link insert is
\* rejected the call fails and the store holds neither the token row nor a
\* link row of the secret, so exists(secret) is false; and in every state a
\* secret has link rows only if it has its token row.
C1_InsertAtomic ==
    /\ (last.op = "insert" /\ last.failedAt \in {"project", "environment"}) =>
          /\ last.outcome = "error"
          /\ ~HasSecret(Database, last.secret)
          /\ api_token_project[last.secret] = <<>>
          /\ api_token_environment[last.secret] = <<>>
    /\ \A s \in Secrets :
          (api_token_project[s] # <<>> \/ api_token_environment[s] # <<>>) =>
              HasSecret(Database, s)

\* an insert rejected at a link row, while another token and its links are
\* stored
C1_Witness ==
    /\ last.op = "insert"
    /\ last.failedAt \in {"project", "environment"}
    /\ \E s \in Secrets : s # last.secret /\ api_token_project[s] # <<>>

\* a scope list is the wildcard alone or holds no wildcard
WellScoped(list) == list = <<ALL>> \/ ALL \notin Range(list)

\* the scope list get is to return for an inserted list
Expected(list) == IF list = <<>> \/ list = <<ALL>> THEN <<ALL>> ELSE list

\* C2: after a successful insert, get(secret) returns a token whose projects
\* and environments equal the inserted lists, the wildcard standing for an
\* empty list and for the sentinel.  Stated for the requests whose lists do
\* not hold the wildcard among other values.
C2_InsertThenGet ==
    (last.op = "insert" /\ last.outcome = "ok"
        /\ WellScoped(last.projects) /\ WellScoped(last.environments)) =>
        LET got == Get(Database, last.secret)
        IN  /\ Len(got) = 1
            /\ got[1].projects = Expected(last.projects)
            /\ got[1].environments = Expected(last.environments)

\* C4: every token returned by insert, get, getAll, getAllActive and
\* setExpiry has projects that are the wildcard alone or concrete identifiers
\* only, and environments likewise.
C4_ScopesWellFormed ==
    (last.op \in {"insert", "get", "getAll", "getAllActive", "setExpiry"}
        /\ last.outcome = "ok") =>
        \A i \in 1..Len(last.ret) :
            /\ WellScoped(last.ret[i].projects)
            /\ WellScoped(last.ret[i].environments)

\* the expiry get(secret) reports: <<>> when get returns undefined
ExpiryOf(db, secret) ==
    LET got == Get(db, secret)
    IN  IF Len(got) = 0 THEN <<>> ELSE <<got[1].expiresAt>>

\* what a setExpiry that storage did not reject has done
SetExpiryDone ==
    (last.op = "setExpiry" /\ ~last.fail) =>
        IF HasSecret(Database, last.secret)
        THEN /\ last.outcome = "ok"
             /\ ExpiryOf(Database, last.secret) = <<last.expiresAt>>
        ELSE last.outcome = "NotFoundError"

\* the step is a setExpiry that wrote the token row of the secret
SetsExpiry(secret) ==
    /\ last'.op = "setExpiry"
    /\ last'.secret = secret
    /\ api_tokens' # api_tokens

\* the step is a delete or deleteAll that removed the token row of the secret
Removes(secret) ==
    /\ last'.op = "deleteAll" \/ (last'.op = "delete" /\ last'.secret = secret)
    /\ api_tokens' # api_tokens

NotFoundChangesNothing ==
    (last'.op = "setExpiry" /\ last'.outcome = "NotFoundError") =>
        UNCHANGED <<api_tokens, api_token_project, api_token_environment>>

\* the expiry column of the token row of a secret: <<>> when it has no row
RowExpiry(tokenRows, secret) ==
    IF \E t \in tokenRows : t.secret = secret
    THEN <<(CHOOSE t \in tokenRows : t.secret = secret).expires_at>>
    ELSE <<>>

\* get(secret) reports the expiry column of the token row
GetReportsRow ==
    \A s \in Secrets : ExpiryOf(Database, s) = RowExpiry(api_tokens, s)

C6_MarkSeenAtSwallows ==
    /\ last.op = "markSeenAt" =>
          /\ last.outcome = "ok"
          /\ last.fail => last.logged
    /\ (last.op \notin {"markSeenAt", "none"} /\ last.fail) =>
          last.outcome = "error"

\* a markSeenAt whose update storage rejected
C6_Witness ==
    /\ last.op = "markSeenAt"
    /\ last.fail
    /\ last.logged
    /\ api_tokens # {}

\* C7: getAllActive returns exactly the stored tokens whose expiry is absent
\* or strictly later than the current time, each once.
C7_ActiveExactly ==
    (last.op = "getAllActive" /\ last.outcome = "ok") =>
        /\ SecretsOf(last.ret) =
              {t.secret : t \in {u \in api_tokens :
                                    u.expires_at = NoTime \/ u.expires_at > last.clock}}
        /\ Len(last.ret) = Cardinality(SecretsOf(last.ret))

\* a getAllActive over a token that expires at the current time and a token
\* that it returns
C7_Witness ==
    /\ last.op = "getAllActive"
    /\ last.outcome = "ok"
    /\ \E t \in api_tokens : t.expires_at = last.clock
    /\ Len(last.ret) = 1
    /\ Cardinality(api_tokens) = 2

TimerSteps(trace) ==
    SelectSeq(trace, LAMBDA e : e.step \in {"timer.start", "timer.stop"})

Bracketed(call) ==
    call.trace = <<TimerStart(call.op), Storage(call.op), TimerStop(call.op)>>

====
